---- MODULE Spec2Model ----
(***************************************************************************)
(* Model of language/transaction-builder/src/lib.rs: the typed             *)
(* transaction-script encoders, the reverse lookup get_transaction_name    *)
(* and the stdlib upgrade write-set builder.                               *)
(*                                                                         *)
(* Every function of the file is pure.  The state is the position of one   *)
(* synchronous caller: idle, holding the value a call returned, or dead    *)
(* after a panic; plus the process-wide bytecode table the encoders read.  *)
(***************************************************************************)
EXTENDS Integers, Sequences, FiniteSets, TLC

VARIABLES registry, pc, fn, input, ret

vars == <<registry, pc, fn, input, ret>>

(***************************************************************************)
(* Bounds of the model.                                                    *)
(***************************************************************************)
\* auth key prefixes of every length 0..MaxPrefixLen are tried
MaxPrefixLen == 17
\* byte values 0..MaxByte fill the byte vectors
MaxByte == 1
\* module lists of length 0..MaxModules are tried
MaxModules == 3
\* raw argument vectors of length 0..MaxRawArgs for encode_stdlib_script
MaxRawArgs == 2
\* raw type-argument vectors of length 0..MaxTypeArgs for encode_stdlib_script
MaxTypeArgs == 1

(***************************************************************************)
(* Constants of libra_types used by the file.                              *)
(***************************************************************************)
\* AuthenticationKey::LENGTH
AuthKeyLength == 32
\* AccountAddress::LENGTH
AddressLength == 16

(***************************************************************************)
(* Values.                                                                 *)
(***************************************************************************)
Fill(n, b) == [i \in 1..n |-> b]

\* Result<T, E>: Ok(v) or Err; a panic is carried the same way up to the caller
Ok(v) == [ok |-> TRUE, val |-> v]

Err(msg) == [ok |-> FALSE, msg |-> msg]

\* the caller holds nothing
NoValue == [kind |-> "none"]

ByteValues == 0..MaxByte

\* the byte vectors handed to Bytes parameters: empty, one byte, exactly a
\* prefix, one byte more than a prefix
ByteVectors == {Fill(n, MaxByte) : n \in {0, 1, AuthKeyLength - AddressLength, AuthKeyLength - AddressLength + 1}}

\* the byte vectors handed to auth_key_prefix of the hand-written encoders:
\* every length up to the bound, every fill byte, and vectors of mixed bytes
AuthKeyPrefixes == {Fill(n, b) : n \in 0..MaxPrefixLen, b \in ByteValues} \cup {[i \in 1..n |-> i % (MaxByte + 1)] : n \in 0..MaxPrefixLen}

\* AccountAddress: AddressLength bytes
Addresses == {Fill(AddressLength, b) : b \in ByteValues}

U64Values == {0, 100}

\* TypeTag: opaque to this file
TypeTags == {"LBR", "Coin1"}

\* TransactionArgument: the four variants
TransactionArgument(variant, v) == [tag |-> variant, val |-> v]

\* Script::new(code, ty_args, args)
ScriptNew(code, ty_args, args) == [code |-> code, ty_args |-> ty_args, args |-> args]

(***************************************************************************)
(* stdlib::transaction_scripts::StdlibScript: the closed set of scripts,   *)
(* their display names and their compiled bytes.                           *)
(***************************************************************************)
AllScripts ==
  << [id |-> "AddValidator", name |-> "add_validator"],
     [id |-> "Burn", name |-> "burn"],
     [id |-> "BurnTxnFees", name |-> "burn_txn_fees"],
     [id |-> "CancelBurn", name |-> "cancel_burn"],
     [id |-> "PeerToPeerWithMetadata", name |-> "peer_to_peer_with_metadata"],
     [id |-> "Preburn", name |-> "preburn"],
     [id |-> "PublishSharedEd2551PublicKey", name |-> "publish_shared_ed25519_public_key"],
     [id |-> "AddCurrencyToAccount", name |-> "add_currency_to_account"],
     [id |-> "RegisterPreburner", name |-> "register_preburner"],
     [id |-> "RegisterValidator", name |-> "register_validator"],
     [id |-> "RemoveValidator", name |-> "remove_validator"],
     [id |-> "RotateCompliancePublicKey", name |-> "rotate_compliance_public_key"],
     [id |-> "RotateBaseUrl", name |-> "rotate_base_url"],
     [id |-> "RotateConsensusPubkey", name |-> "rotate_consensus_pubkey"],
     [id |-> "RotateAuthenticationKey", name |-> "rotate_authentication_key"],
     [id |-> "RotateSharedEd2551PublicKey", name |-> "rotate_shared_ed25519_public_key"],
     [id |-> "Mint", name |-> "mint"],
     [id |-> "MintLbrToAddress", name |-> "mint_lbr_to_address"],
     [id |-> "ModifyPublishingOption", name |-> "modify_publishing_option"],
     [id |-> "UpdateLibraVersion", name |-> "update_libra_version"],
     [id |-> "MintLbr", name |-> "mint_lbr"],
     [id |-> "UnmintLbr", name |-> "unmint_lbr"],
     [id |-> "UpdateExchangeRate", name |-> "update_exchange_rate"],
     [id |-> "UpdateMintingAbility", name |-> "update_minting_ability"],
     [id |-> "CreateParentVaspAccount", name |-> "create_parent_vasp_account"],
     [id |-> "CreateChildVaspAccount", name |-> "create_child_vasp_account"],
     [id |-> "TieredMint", name |-> "tiered_mint"],
     [id |-> "CreateDesignatedDealer", name |-> "create_designated_dealer"],
     [id |-> "FreezeAccount", name |-> "freeze_account"],
     [id |-> "UnfreezeAccount", name |-> "unfreeze_account"],
     [id |-> "RotateAuthenticationKeyWithNonce", name |-> "rotate_authentication_key_with_nonce"] >>

StdlibScript == {AllScripts[i].id : i \in 1..Len(AllScripts)}

ScriptIndex(s) == CHOOSE i \in 1..Len(AllScripts) : AllScripts[i].id = s

\* Display for StdlibScript
ScriptName(s) == AllScripts[ScriptIndex(s)].name

\* the first bytes of every compiled Move binary
MoveMagic == <<161, 28, 235, 11>>

\* the embedded table of compiled scripts: one blob per script, all distinct
StdlibRegistry == [s \in StdlibScript |-> MoveMagic \o <<ScriptIndex(s)>>]

\* StdlibScript::compiled_bytes().into_vec()
CompiledBytes(s) == registry[s]

\* TryFrom<&[u8]> for StdlibScript: the first script whose bytes are `code`
TryFrom(code) ==
  LET hits == {i \in 1..Len(AllScripts) : registry[AllScripts[i].id] = code}
  IN IF hits = {} THEN Err("unknown script")
     ELSE Ok(AllScripts[CHOOSE i \in hits : \A j \in hits : i <= j].id)

(***************************************************************************)
(* Validation.                                                             *)
(***************************************************************************)
\* variant of validate_auth_key_prefix: the empty prefix is refused
validate_auth_key_prefix_nonempty(auth_key_prefix) ==
  IF Len(auth_key_prefix) = AuthKeyLength - AddressLength THEN Ok(<<>>) ELSE Err("Bad auth key prefix length")

\* checked_assume!(len == 0 || len == AuthenticationKey::LENGTH - AccountAddress::LENGTH)
validate_auth_key_prefix(auth_key_prefix) ==
  LET auth_key_prefix_length == Len(auth_key_prefix)
  IN IF auth_key_prefix_length = 0 \/ auth_key_prefix_length = AuthKeyLength - AddressLength
     THEN Ok(<<>>)
     ELSE Err("Bad auth key prefix length")

(***************************************************************************)
(* The macros.                                                             *)
(***************************************************************************)
\* to_rust_ty!: the values a parameter of the declared type ranges over
to_rust_ty(arg_ty) ==
  CASE arg_ty = "U64" -> U64Values
    [] arg_ty = "Address" -> Addresses
    [] arg_ty = "Bytes" -> ByteVectors
    [] arg_ty = "Bool" -> BOOLEAN

\* variant of to_txn_arg!: the Bool arm is a copy of the U64 arm
to_txn_arg_bool_as_u64(arg_ty, param) ==
  CASE arg_ty = "U64" -> TransactionArgument("U64", param)
    [] arg_ty = "Address" -> TransactionArgument("Address", param)
    [] arg_ty = "Bytes" -> TransactionArgument("U8Vector", param)
    [] arg_ty = "Bool" -> TransactionArgument("U64", param)

\* to_txn_arg!
to_txn_arg(arg_ty, param) ==
  CASE arg_ty = "U64" -> TransactionArgument("U64", param)
    [] arg_ty = "Address" -> TransactionArgument("Address", param)
    [] arg_ty = "Bytes" -> TransactionArgument("U8Vector", param)
    [] arg_ty = "Bool" -> TransactionArgument("Bool", param)

\* variant of encode_txn_script!: the script name is not substituted
encode_txn_script_fixed_script(ty_args, arg_tys, params, script_name) ==
  ScriptNew(registry["AddValidator"], ty_args, [i \in 1..Len(arg_tys) |-> TransactionArgument(IF arg_tys[i] = "Bytes" THEN "U8Vector" ELSE arg_tys[i], params[i])])

\* encode_txn_script!, third arm: the body of every generated encoder
encode_txn_script(ty_args, arg_tys, params, script_name) ==
  ScriptNew(CompiledBytes(script_name), ty_args, [i \in 1..Len(arg_tys) |-> to_txn_arg(arg_tys[i], params[i])])

\* an invocation of encode_txn_script!: name, type_arg (present or not), args, script
Declare(name, type_arg, args, script) == [name |-> name, type_arg |-> type_arg, args |-> args, script |-> script]

(***************************************************************************)
(* The generated encoders, one per invocation of the macro.                *)
(***************************************************************************)
encode_add_validator_script == Declare("encode_add_validator_script", FALSE, <<"Address">>, "AddValidator")

encode_burn_script == Declare("encode_burn_script", TRUE, <<"U64", "Address">>, "Burn")

encode_burn_txn_fees_script == Declare("encode_burn_txn_fees_script", TRUE, <<>>, "BurnTxnFees")

encode_cancel_burn_script == Declare("encode_cancel_burn_script", TRUE, <<"Address">>, "CancelBurn")

encode_transfer_with_metadata_script == Declare("encode_transfer_with_metadata_script", TRUE, <<"Address", "U64", "Bytes", "Bytes">>, "PeerToPeerWithMetadata")

encode_preburn_script == Declare("encode_preburn_script", TRUE, <<"U64">>, "Preburn")

encode_publish_shared_ed25519_public_key_script == Declare("encode_publish_shared_ed25519_public_key_script", FALSE, <<"Bytes">>, "PublishSharedEd2551PublicKey")

encode_add_currency_to_account_script == Declare("encode_add_currency_to_account_script", TRUE, <<>>, "AddCurrencyToAccount")

encode_register_preburner_script == Declare("encode_register_preburner_script", TRUE, <<>>, "RegisterPreburner")

encode_register_validator_script == Declare("encode_register_validator_script", FALSE, <<"Bytes", "Bytes", "Bytes", "Bytes", "Bytes">>, "RegisterValidator")

encode_remove_validator_script == Declare("encode_remove_validator_script", FALSE, <<"Address">>, "RemoveValidator")

encode_rotate_compliance_public_key_script == Declare("encode_rotate_compliance_public_key_script", FALSE, <<"Bytes">>, "RotateCompliancePublicKey")

encode_rotate_base_url_script == Declare("encode_rotate_base_url_script", FALSE, <<"Bytes">>, "RotateBaseUrl")

encode_rotate_consensus_pubkey_script == Declare("encode_rotate_consensus_pubkey_script", FALSE, <<"Bytes">>, "RotateConsensusPubkey")

rotate_authentication_key_script == Declare("rotate_authentication_key_script", FALSE, <<"Bytes">>, "RotateAuthenticationKey")

encode_rotate_shared_ed25519_public_key_script == Declare("encode_rotate_shared_ed25519_public_key_script", FALSE, <<"Bytes">>, "RotateSharedEd2551PublicKey")

encode_mint_lbr == Declare("encode_mint_lbr", FALSE, <<"U64">>, "MintLbr")

encode_unmint_lbr == Declare("encode_unmint_lbr", FALSE, <<"U64">>, "UnmintLbr")

encode_update_exchange_rate == Declare("encode_update_exchange_rate", TRUE, <<"U64", "U64">>, "UpdateExchangeRate")

encode_update_minting_ability == Declare("encode_update_minting_ability", TRUE, <<"Bool">>, "UpdateMintingAbility")

encode_create_parent_vasp_account == Declare("encode_create_parent_vasp_account", TRUE, <<"Address", "Bytes", "Bytes", "Bytes", "Bytes", "Bool">>, "CreateParentVaspAccount")

encode_create_child_vasp_account == Declare("encode_create_child_vasp_account", TRUE, <<"Address", "Bytes", "Bool", "U64">>, "CreateChildVaspAccount")

encode_tiered_mint == Declare("encode_tiered_mint", TRUE, <<"U64", "Address", "U64", "U64">>, "TieredMint")

encode_create_designated_dealer == Declare("encode_create_designated_dealer", TRUE, <<"U64", "Address", "Bytes">>, "CreateDesignatedDealer")

encode_freeze_account == Declare("encode_freeze_account", FALSE, <<"U64", "Address">>, "FreezeAccount")

encode_unfreeze_account == Declare("encode_unfreeze_account", FALSE, <<"U64", "Address">>, "UnfreezeAccount")

encode_rotate_authentication_key_script_with_nonce == Declare("encode_rotate_authentication_key_script_with_nonce", FALSE, <<"U64", "Bytes">>, "RotateAuthenticationKeyWithNonce")

\* encode_txn_script!, first two arms: the generated function applied to its
\* parameters; ty is <<type argument>> for the first arm, <<>> for the second
GeneratedEncoder(decl, ty, params) == Ok(encode_txn_script(ty, decl.args, params, decl.script))

(***************************************************************************)
(* The hand-written encoders.                                              *)
(***************************************************************************)
\* variant of encode_stdlib_script: byte vectors are held to the prefix length
encode_stdlib_script_checked(stdlib_script, type_args, args) ==
  IF \E i \in 1..Len(args) : args[i].tag = "U8Vector" /\ ~validate_auth_key_prefix(args[i].val).ok
  THEN Err("Bad auth key prefix length")
  ELSE Ok(ScriptNew(registry[stdlib_script], type_args, args))

encode_stdlib_script(stdlib_script, type_args, args) == Ok(ScriptNew(CompiledBytes(stdlib_script), type_args, args))

\* variant of encode_mint_script: the bytes of the LBR mint script
encode_mint_script_lbr_bytes(token, sender, auth_key_prefix, amount) ==
  LET checked == validate_auth_key_prefix(auth_key_prefix)
  IN IF ~checked.ok THEN checked
     ELSE Ok(ScriptNew(registry["MintLbrToAddress"], <<token>>,
                       << TransactionArgument("Address", sender),
                          TransactionArgument("U8Vector", auth_key_prefix),
                          TransactionArgument("U64", amount) >>))

encode_mint_script(token, sender, auth_key_prefix, amount) ==
  LET checked == validate_auth_key_prefix(auth_key_prefix)
  IN IF ~checked.ok THEN checked
     ELSE Ok(ScriptNew(CompiledBytes("Mint"), <<token>>,
                       << TransactionArgument("Address", sender),
                          TransactionArgument("U8Vector", auth_key_prefix),
                          TransactionArgument("U64", amount) >>))

\* variant of encode_mint_lbr_to_address_script: the prefix is not validated
encode_mint_lbr_to_address_script_unchecked(address, auth_key_prefix, amount) ==
  Ok(ScriptNew(registry["MintLbrToAddress"], <<>>,
               << TransactionArgument("Address", address),
                  TransactionArgument("U8Vector", auth_key_prefix),
                  TransactionArgument("U64", amount) >>))

encode_mint_lbr_to_address_script(address, auth_key_prefix, amount) ==
  LET checked == validate_auth_key_prefix(auth_key_prefix)
  IN IF ~checked.ok THEN checked
     ELSE Ok(ScriptNew(CompiledBytes("MintLbrToAddress"), <<>>,
                       << TransactionArgument("Address", address),
                          TransactionArgument("U8Vector", auth_key_prefix),
                          TransactionArgument("U64", amount) >>))

\* VMPublishingOption: Locked(whitelist of script hashes), CustomScripts, Open
ScriptHashes == {Fill(2, b) : b \in ByteValues}

VMPublishingOptions == {[variant |-> "Locked", whitelist |-> w] : w \in UNION {[1..k -> ScriptHashes] : k \in 0..2}} \cup {[variant |-> "CustomScripts", whitelist |-> <<>>], [variant |-> "Open", whitelist |-> <<>>]}

RECURSIVE Concat(_)
Concat(seqs) == IF seqs = <<>> THEN <<>> ELSE Head(seqs) \o Concat(Tail(seqs))

\* lcs::to_bytes(&VMPublishingOption): the variant index, then for Locked the
\* length of the whitelist and its hashes, each a fixed-size array
LcsToBytes(config) ==
  CASE config.variant = "Locked" -> Ok(<<0, Len(config.whitelist)>> \o Concat(config.whitelist))
    [] config.variant = "CustomScripts" -> Ok(<<1>>)
    [] config.variant = "Open" -> Ok(<<2>>)

encode_publishing_option_script(config) ==
  LET bytes == LcsToBytes(config)
  IN IF ~bytes.ok THEN Err("Cannot deserialize VMPublishingOption")
     ELSE Ok(ScriptNew(CompiledBytes("ModifyPublishingOption"), <<>>,
                       << TransactionArgument("U8Vector", bytes.val) >>))

\* LibraVersion { major }
LibraVersions == {[major |-> v] : v \in U64Values}

encode_update_libra_version(libra_version) == Ok(ScriptNew(CompiledBytes("UpdateLibraVersion"), <<>>, << TransactionArgument("U64", libra_version.major) >>))

\* BlockMetadata: opaque to this file
BlockMetadatas == {[timestamp_usecs |-> t, proposer |-> a] : t \in U64Values, a \in Addresses}

\* Transaction::BlockMetadata(block_metadata)
encode_block_prologue_script(block_metadata) == Ok([variant |-> "BlockMetadata", block_metadata |-> block_metadata])

(***************************************************************************)
(* The reverse lookup.                                                     *)
(***************************************************************************)
\* variant of get_transaction_name: the suffix is added to the sentinel too
get_transaction_name_suffix_always(code) ==
  LET name == TryFrom(code)
  IN Ok((IF name.ok THEN ScriptName(name.val) ELSE "<unknown transaction>") \o "_transaction")

get_transaction_name(code) ==
  LET name == TryFrom(code)
  IN Ok(IF name.ok THEN ScriptName(name.val) \o "_transaction" ELSE "<unknown transaction>")

(***************************************************************************)
(* The stdlib upgrade write set.                                           *)
(***************************************************************************)
\* compiled modules: two of them share one identifier, one does not serialize,
\* one has the name of another at a different address
ModulePool ==
  { [address |-> Fill(AddressLength, 0), name |-> "LibraAccount", body |-> <<1>>, serializes |-> TRUE],
    [address |-> Fill(AddressLength, 0), name |-> "LBR", body |-> <<2>>, serializes |-> TRUE],
    [address |-> Fill(AddressLength, 0), name |-> "LBR", body |-> <<3>>, serializes |-> TRUE],
    [address |-> Fill(AddressLength, MaxByte), name |-> "LBR", body |-> <<4>>, serializes |-> TRUE],
    [address |-> Fill(AddressLength, 0), name |-> "Libra", body |-> <<5>>, serializes |-> FALSE] }

\* StdLibOptions: what selects the module list; stdlib_modules(option) is that list
StdLibOptions == UNION {[1..k -> ModulePool] : k \in 0..MaxModules}

stdlib_modules(option) == option

\* ModuleAccess::self_id
self_id(module) == [address |-> module.address, name |-> module.name]

\* CompiledModule::serialize
Serialize(module) == IF module.serializes THEN Ok(MoveMagic \o module.body) ELSE Err("serialization failed")

\* AccessPath::code_access_path: the module's address and the code tag followed
\* by the hash of the module identifier (the identifier stands for its hash)
code_access_path(module_id) == [address |-> module_id.address, path |-> <<"code", module_id.address, module_id.name>>]

\* WriteOp::Value
WriteOpValue(bytes) == [op |-> "Value", bytes |-> bytes]

\* WriteSetMut::freeze: refuses a write set in which two entries have one access path
Freeze(write_set) ==
  IF \E i, j \in 1..Len(write_set) : i < j /\ write_set[i][1] = write_set[j][1]
  THEN Err("duplicate access path")
  ELSE Ok(write_set)

\* ChangeSet::new
ChangeSetNew(write_set, events) == [write_set |-> write_set, events |-> events]

\* variant of the loop: each entry is put in front of the write set
RECURSIVE PushModules_prepend(_, _)
PushModules_prepend(modules, write_set) ==
  IF modules = <<>> THEN Ok(write_set)
  ELSE LET module == Head(modules)
           bytes == Serialize(module)
       IN IF ~bytes.ok THEN Err("Failed to serialize module")
          ELSE PushModules_prepend(Tail(modules), <<<<code_access_path(self_id(module)), WriteOpValue(bytes.val)>>>> \o write_set)

\* variant of the loop: a module that does not serialize is skipped
RECURSIVE PushModules_skip_failed(_, _)
PushModules_skip_failed(modules, write_set) ==
  IF modules = <<>> THEN Ok(write_set)
  ELSE LET module == Head(modules)
           bytes == Serialize(module)
       IN IF ~bytes.ok THEN PushModules_skip_failed(Tail(modules), write_set)
          ELSE PushModules_skip_failed(Tail(modules), Append(write_set, <<code_access_path(self_id(module)), WriteOpValue(bytes.val)>>))

\* the loop over the modules: serialize, push (access path, WriteOp::Value)
RECURSIVE PushModules(_, _)
PushModules(modules, write_set) ==
  IF modules = <<>> THEN Ok(write_set)
  ELSE LET module == Head(modules)
           bytes == Serialize(module)
       IN IF ~bytes.ok THEN Err("Failed to serialize module")
          ELSE PushModules(Tail(modules), Append(write_set, <<code_access_path(self_id(module)), WriteOpValue(bytes.val)>>))

encode_stdlib_upgrade_transaction(option) ==
  LET write_set == PushModules(stdlib_modules(option), <<>>)
  IN IF ~write_set.ok THEN write_set
     ELSE LET frozen == Freeze(write_set.val)
          IN IF ~frozen.ok THEN Err("Failed to create writeset")
             ELSE Ok(ChangeSetNew(frozen.val, <<>>))

(***************************************************************************)
(* The caller: one call at a time.  A call that returns leaves its value   *)
(* with the caller; a call that panics ends the caller.                    *)
(***************************************************************************)
Finish(f, in, result) ==
  /\ pc' = IF result.ok THEN "returned" ELSE "aborted"
  /\ fn' = f
  /\ input' = in
  /\ ret' = IF result.ok THEN [kind |-> "value", val |-> result.val] ELSE NoValue
  /\ UNCHANGED registry

\* the parameter lists of a generated encoder
RECURSIVE Params(_)
Params(arg_tys) ==
  IF arg_tys = <<>> THEN {<<>>}
  ELSE {<<p>> \o rest : p \in to_rust_ty(Head(arg_tys)), rest \in Params(Tail(arg_tys))}

\* a call of a generated encoder with any type argument and parameters
CallGenerated(decl) ==
  \E ty \in (IF decl.type_arg THEN {<<t>> : t \in TypeTags} ELSE {<<>>}), params \in Params(decl.args) :
    Finish(decl.name, [ty |-> ty, params |-> params], GeneratedEncoder(decl, ty, params))

Call_encode_add_validator_script ==
  /\ pc = "idle"
  /\ CallGenerated(encode_add_validator_script)

Call_encode_burn_script ==
  /\ pc = "idle"
  /\ CallGenerated(encode_burn_script)

Call_encode_burn_txn_fees_script ==
  /\ pc = "idle"
  /\ CallGenerated(encode_burn_txn_fees_script)

Call_encode_cancel_burn_script ==
  /\ pc = "idle"
  /\ CallGenerated(encode_cancel_burn_script)

Call_encode_transfer_with_metadata_script ==
  /\ pc = "idle"
  /\ CallGenerated(encode_transfer_with_metadata_script)

Call_encode_preburn_script ==
  /\ pc = "idle"
  /\ CallGenerated(encode_preburn_script)

Call_encode_publish_shared_ed25519_public_key_script ==
  /\ pc = "idle"
  /\ CallGenerated(encode_publish_shared_ed25519_public_key_script)

Call_encode_add_currency_to_account_script ==
  /\ pc = "idle"
  /\ CallGenerated(encode_add_currency_to_account_script)

Call_encode_register_preburner_script ==
  /\ pc = "idle"
  /\ CallGenerated(encode_register_preburner_script)

Call_encode_register_validator_script ==
  /\ pc = "idle"
  /\ CallGenerated(encode_register_validator_script)

Call_encode_remove_validator_script ==
  /\ pc = "idle"
  /\ CallGenerated(encode_remove_validator_script)

Call_encode_rotate_compliance_public_key_script ==
  /\ pc = "idle"
  /\ CallGenerated(encode_rotate_compliance_public_key_script)

Call_encode_rotate_base_url_script ==
  /\ pc = "idle"
  /\ CallGenerated(encode_rotate_base_url_script)

Call_encode_rotate_consensus_pubkey_script ==
  /\ pc = "idle"
  /\ CallGenerated(encode_rotate_consensus_pubkey_script)

Call_rotate_authentication_key_script ==
  /\ pc = "idle"
  /\ CallGenerated(rotate_authentication_key_script)

Call_encode_rotate_shared_ed25519_public_key_script ==
  /\ pc = "idle"
  /\ CallGenerated(encode_rotate_shared_ed25519_public_key_script)

Call_encode_mint_lbr ==
  /\ pc = "idle"
  /\ CallGenerated(encode_mint_lbr)

Call_encode_unmint_lbr ==
  /\ pc = "idle"
  /\ CallGenerated(encode_unmint_lbr)

Call_encode_update_exchange_rate ==
  /\ pc = "idle"
  /\ CallGenerated(encode_update_exchange_rate)

Call_encode_update_minting_ability ==
  /\ pc = "idle"
  /\ CallGenerated(encode_update_minting_ability)

Call_encode_create_parent_vasp_account ==
  /\ pc = "idle"
  /\ CallGenerated(encode_create_parent_vasp_account)

Call_encode_create_child_vasp_account ==
  /\ pc = "idle"
  /\ CallGenerated(encode_create_child_vasp_account)

Call_encode_tiered_mint ==
  /\ pc = "idle"
  /\ CallGenerated(encode_tiered_mint)

Call_encode_create_designated_dealer ==
  /\ pc = "idle"
  /\ CallGenerated(encode_create_designated_dealer)

Call_encode_freeze_account ==
  /\ pc = "idle"
  /\ CallGenerated(encode_freeze_account)

Call_encode_unfreeze_account ==
  /\ pc = "idle"
  /\ CallGenerated(encode_unfreeze_account)

Call_encode_rotate_authentication_key_script_with_nonce ==
  /\ pc = "idle"
  /\ CallGenerated(encode_rotate_authentication_key_script_with_nonce)

\* raw arguments for encode_stdlib_script: any tags in any order
RawArguments == << TransactionArgument("U8Vector", Fill(1, MaxByte)), TransactionArgument("U64", 100), TransactionArgument("Bool", TRUE) >>

\* a raw argument vector: the arguments picked, in the order picked
RawArgumentVector(pick) == [i \in 1..Len(pick) |-> RawArguments[pick[i]]]

Call_encode_stdlib_script ==
  /\ pc = "idle"
  /\ \E stdlib_script \in StdlibScript, type_args \in UNION {[1..k -> TypeTags] : k \in 0..MaxTypeArgs}, pick \in UNION {[1..k -> 1..Len(RawArguments)] : k \in 0..MaxRawArgs} :
       Finish("encode_stdlib_script", [stdlib_script |-> stdlib_script, type_args |-> type_args, args |-> RawArgumentVector(pick)], encode_stdlib_script(stdlib_script, type_args, RawArgumentVector(pick)))

Call_validate_auth_key_prefix ==
  /\ pc = "idle"
  /\ \E auth_key_prefix \in AuthKeyPrefixes :
       Finish("validate_auth_key_prefix", [auth_key_prefix |-> auth_key_prefix], validate_auth_key_prefix(auth_key_prefix))

Call_encode_mint_script ==
  /\ pc = "idle"
  /\ \E token \in TypeTags, sender \in Addresses, auth_key_prefix \in AuthKeyPrefixes, amount \in U64Values :
       Finish("encode_mint_script", [token |-> token, sender |-> sender, auth_key_prefix |-> auth_key_prefix, amount |-> amount], encode_mint_script(token, sender, auth_key_prefix, amount))

Call_encode_mint_lbr_to_address_script ==
  /\ pc = "idle"
  /\ \E address \in Addresses, auth_key_prefix \in AuthKeyPrefixes, amount \in U64Values :
       Finish("encode_mint_lbr_to_address_script", [address |-> address, auth_key_prefix |-> auth_key_prefix, amount |-> amount], encode_mint_lbr_to_address_script(address, auth_key_prefix, amount))

Call_encode_publishing_option_script ==
  /\ pc = "idle"
  /\ \E config \in VMPublishingOptions :
       Finish("encode_publishing_option_script", [config |-> config], encode_publishing_option_script(config))

Call_encode_update_libra_version ==
  /\ pc = "idle"
  /\ \E libra_version \in LibraVersions :
       Finish("encode_update_libra_version", [libra_version |-> libra_version], encode_update_libra_version(libra_version))

Call_encode_block_prologue_script ==
  /\ pc = "idle"
  /\ \E block_metadata \in BlockMetadatas :
       Finish("encode_block_prologue_script", [block_metadata |-> block_metadata], encode_block_prologue_script(block_metadata))

\* the byte sequences looked up: every registered blob, the empty sequence,
\* the bare magic, a blob no script has, a registered blob with a byte appended
LookupCodes == {registry[s] : s \in StdlibScript} \cup {<<>>, MoveMagic, MoveMagic \o <<0>>, MoveMagic \o <<1, 0>>}

Call_get_transaction_name ==
  /\ pc = "idle"
  /\ \E code \in LookupCodes :
       Finish("get_transaction_name", [code |-> code], get_transaction_name(code))

Call_encode_stdlib_upgrade_transaction ==
  /\ pc = "idle"
  /\ \E option \in StdLibOptions :
       Finish("encode_stdlib_upgrade_transaction", [option |-> option], encode_stdlib_upgrade_transaction(option))

\* the caller is done with the value it received: the value goes out of scope
Release ==
  /\ pc = "returned"
  /\ pc' = "idle"
  /\ fn' = "none"
  /\ input' = NoValue
  /\ ret' = NoValue
  /\ UNCHANGED registry

Init ==
  /\ registry = StdlibRegistry
  /\ pc = "idle"
  /\ fn = "none"
  /\ input = NoValue
  /\ ret = NoValue

Next ==
  \/ Call_encode_add_validator_script
  \/ Call_encode_burn_script
  \/ Call_encode_burn_txn_fees_script
  \/ Call_encode_cancel_burn_script
  \/ Call_encode_transfer_with_metadata_script
  \/ Call_encode_preburn_script
  \/ Call_encode_publish_shared_ed25519_public_key_script
  \/ Call_encode_add_currency_to_account_script
  \/ Call_encode_register_preburner_script
  \/ Call_encode_register_validator_script
  \/ Call_encode_remove_validator_script
  \/ Call_encode_rotate_compliance_public_key_script
  \/ Call_encode_rotate_base_url_script
  \/ Call_encode_rotate_consensus_pubkey_script
  \/ Call_rotate_authentication_key_script
  \/ Call_encode_rotate_shared_ed25519_public_key_script
  \/ Call_encode_mint_lbr
  \/ Call_encode_unmint_lbr
  \/ Call_encode_update_exchange_rate
  \/ Call_encode_update_minting_ability
  \/ Call_encode_create_parent_vasp_account
  \/ Call_encode_create_child_vasp_account
  \/ Call_encode_tiered_mint
  \/ Call_encode_create_designated_dealer
  \/ Call_encode_freeze_account
  \/ Call_encode_unfreeze_account
  \/ Call_encode_rotate_authentication_key_script_with_nonce
  \/ Call_encode_stdlib_script
  \/ Call_validate_auth_key_prefix
  \/ Call_encode_mint_script
  \/ Call_encode_mint_lbr_to_address_script
  \/ Call_encode_publishing_option_script
  \/ Call_encode_update_libra_version
  \/ Call_encode_block_prologue_script
  \/ Call_get_transaction_name
  \/ Call_encode_stdlib_upgrade_transaction
  \/ Release

Spec == Init /\ [][Next]_vars

(***************************************************************************)
(* Vocabulary of the properties.                                           *)
(***************************************************************************)
GeneratedEncoders ==
  {encode_add_validator_script,
   encode_burn_script,
   encode_burn_txn_fees_script,
   encode_cancel_burn_script,
   encode_transfer_with_metadata_script,
   encode_preburn_script,
   encode_publish_shared_ed25519_public_key_script,
   encode_add_currency_to_account_script,
   encode_register_preburner_script,
   encode_register_validator_script,
   encode_remove_validator_script,
   encode_rotate_compliance_public_key_script,
   encode_rotate_base_url_script,
   encode_rotate_consensus_pubkey_script,
   rotate_authentication_key_script,
   encode_rotate_shared_ed25519_public_key_script,
   encode_mint_lbr,
   encode_unmint_lbr,
   encode_update_exchange_rate,
   encode_update_minting_ability,
   encode_create_parent_vasp_account,
   encode_create_child_vasp_account,
   encode_tiered_mint,
   encode_create_designated_dealer,
   encode_freeze_account,
   encode_unfreeze_account,
   encode_rotate_authentication_key_script_with_nonce}

GeneratedNames == {d.name : d \in GeneratedEncoders}

DeclOf(name) == CHOOSE d \in GeneratedEncoders : d.name = name

HandWrittenNames == {"encode_mint_script", "encode_mint_lbr_to_address_script", "encode_publishing_option_script", "encode_update_libra_version", "encode_stdlib_script"}

EncoderNames == GeneratedNames \cup HandWrittenNames

\* the operation of the encoder that was called
EncoderOperation ==
  CASE fn \in GeneratedNames -> DeclOf(fn).script
    [] fn = "encode_mint_script" -> "Mint"
    [] fn = "encode_mint_lbr_to_address_script" -> "MintLbrToAddress"
    [] fn = "encode_publishing_option_script" -> "ModifyPublishingOption"
    [] fn = "encode_update_libra_version" -> "UpdateLibraVersion"
    [] fn = "encode_stdlib_script" -> input.stdlib_script

\* the TransactionArgument variant of a declared argument type
VariantOf(arg_ty) == IF arg_ty = "Bytes" THEN "U8Vector" ELSE arg_ty

IsPrefixLength(n) == n = 0 \/ n = AuthKeyLength - AddressLength

Tags(args) == [i \in 1..Len(args) |-> args[i].tag]

\* the encoders with an auth_key_prefix parameter and its place in the arguments
PrefixEncoders == {"encode_mint_script", "encode_mint_lbr_to_address_script", "encode_create_parent_vasp_account", "encode_create_child_vasp_account", "encode_create_designated_dealer"}

PrefixPosition == IF fn = "encode_create_designated_dealer" THEN 3 ELSE 2

(***************************************************************************)
(* C1                                                                      *)
(***************************************************************************)
\* C1: whenever an encoder returns a Script, the Script's bytecode is the
\* registry's fixed bytecode of that encoder's operation, whatever the
\* arguments and whatever calls came before; the registry never changes.
C1_BytecodeOfOperation ==
  /\ registry = StdlibRegistry
  /\ (pc = "returned" /\ fn \in EncoderNames) => ret.val.code = StdlibRegistry[EncoderOperation]

C1_Witness ==
  /\ pc = "returned"
  /\ fn = "encode_transfer_with_metadata_script"
  /\ input.params[3] # <<>>
  /\ ret.val.code = StdlibRegistry["PeerToPeerWithMetadata"]

(***************************************************************************)
(* C2                                                                      *)
(***************************************************************************)
\* C2: a generated encoder returns as many arguments as it declares, the
\* i-th with the i-th declared tag and the i-th parameter's value, and one
\* TypeTag exactly when it declares a type parameter; the parent VASP
\* encoder yields [Address, Bytes, Bytes, Bytes, Bytes, Bool] with one TypeTag
\* and encode_add_validator_script(a) yields no type_args and [Address(a)].
C2_ArgumentsFollowSchema ==
  (pc = "returned" /\ fn \in GeneratedNames) =>
    LET decl == DeclOf(fn)
    IN /\ Len(ret.val.args) = Len(decl.args)
       /\ \A i \in 1..Len(decl.args) :
            /\ ret.val.args[i].tag = VariantOf(decl.args[i])
            /\ ret.val.args[i].val = input.params[i]
       /\ Len(ret.val.ty_args) = (IF decl.type_arg THEN 1 ELSE 0)
       /\ ret.val.ty_args = input.ty
       /\ fn = "encode_create_parent_vasp_account" =>
            /\ Tags(ret.val.args) = <<"Address", "U8Vector", "U8Vector", "U8Vector", "U8Vector", "Bool">>
            /\ Len(ret.val.ty_args) = 1
       /\ fn = "encode_add_validator_script" =>
            ret.val = [code |-> StdlibRegistry["AddValidator"], ty_args |-> <<>>, args |-> <<[tag |-> "Address", val |-> input.params[1]]>>]

C2_Witness ==
  /\ pc = "returned"
  /\ fn = "encode_create_parent_vasp_account"
  /\ Len(ret.val.args) = 6
  /\ ret.val.args[6] = [tag |-> "Bool", val |-> TRUE]
  /\ ret.val.ty_args = <<"Coin1">>

(***************************************************************************)
(* C3                                                                      *)
(***************************************************************************)
\* C3: every encoder with an auth_key_prefix parameter validates it, so no
\* returned Script carries a prefix whose length is neither 0 nor
\* AuthKeyLength - AddressLength.
C3_PrefixEncodersValidate ==
  (pc = "returned" /\ fn \in PrefixEncoders) => IsPrefixLength(Len(ret.val.args[PrefixPosition].val))

(***************************************************************************)
(* C4                                                                      *)
(***************************************************************************)
\* C4: encode_mint_script and encode_mint_lbr_to_address_script abort with no
\* Script when the prefix length is neither 0 nor AuthKeyLength -
\* AddressLength; otherwise they return [Address, Bytes(prefix), U64(amount)]
\* with type_args [token], respectively none.
C4_MintValidatesPrefix ==
  /\ fn = "encode_mint_lbr_to_address_script" =>
       IF IsPrefixLength(Len(input.auth_key_prefix))
       THEN /\ pc = "returned"
            /\ ret.val.ty_args = <<>>
            /\ ret.val.args = <<[tag |-> "Address", val |-> input.address], [tag |-> "U8Vector", val |-> input.auth_key_prefix], [tag |-> "U64", val |-> input.amount]>>
       ELSE pc = "aborted" /\ ret = NoValue
  /\ fn = "encode_mint_script" =>
       IF IsPrefixLength(Len(input.auth_key_prefix))
       THEN /\ pc = "returned"
            /\ ret.val.ty_args = <<input.token>>
            /\ ret.val.args = <<[tag |-> "Address", val |-> input.sender], [tag |-> "U8Vector", val |-> input.auth_key_prefix], [tag |-> "U64", val |-> input.amount]>>
       ELSE pc = "aborted" /\ ret = NoValue

C4_Witness ==
  /\ pc = "aborted"
  /\ fn = "encode_mint_lbr_to_address_script"
  /\ Len(input.auth_key_prefix) = 1
  /\ input.amount = 100
  /\ ret = NoValue

(***************************************************************************)
(* C5                                                                      *)
(***************************************************************************)
\* C5: validate_auth_key_prefix succeeds exactly for the prefixes of length 0
\* or AuthKeyLength - AddressLength and aborts for every other length,
\* whatever the bytes.
C5_ValidateByLength ==
  fn = "validate_auth_key_prefix" =>
    /\ IsPrefixLength(Len(input.auth_key_prefix)) => pc = "returned"
    /\ ~IsPrefixLength(Len(input.auth_key_prefix)) => pc = "aborted"

C5_Witness ==
  /\ fn = "validate_auth_key_prefix"
  /\ pc = "returned"
  /\ Len(input.auth_key_prefix) = AuthKeyLength - AddressLength
  /\ \E i, j \in 1..Len(input.auth_key_prefix) : input.auth_key_prefix[i] # input.auth_key_prefix[j]

(***************************************************************************)
(* C6                                                                      *)
(***************************************************************************)
\* C6: get_transaction_name never fails; it returns "<op>_transaction" for
\* the bytes of a registered script and "<unknown transaction>" for any
\* other byte sequence, the empty one included.
C6_TransactionName ==
  fn = "get_transaction_name" =>
    /\ pc = "returned"
    /\ \A s \in StdlibScript : input.code = StdlibRegistry[s] => ret.val = ScriptName(s) \o "_transaction"
    /\ (\A s \in StdlibScript : input.code # StdlibRegistry[s]) => ret.val = "<unknown transaction>"

C6_Witness ==
  /\ fn = "get_transaction_name"
  /\ pc = "returned"
  /\ input.code = <<>>
  /\ ret.val = "<unknown transaction>"

(***************************************************************************)
(* C7                                                                      *)
(***************************************************************************)
\* a valid module set: every module serializes, no two share an identifier
ValidModuleSet(modules) ==
  /\ \A i \in 1..Len(modules) : modules[i].serializes
  /\ \A i, j \in 1..Len(modules) : i < j => self_id(modules[i]) # self_id(modules[j])

\* C7: for a valid module set the ChangeSet has one entry per module, in the
\* modules' order, each a WriteOp::Value of the module's serialized bytes
\* under the code AccessPath of the module's identifier; the keys are
\* pairwise distinct and the event list is empty.
C7_OneWritePerModule ==
  (fn = "encode_stdlib_upgrade_transaction" /\ ValidModuleSet(input.option)) =>
    /\ pc = "returned"
    /\ Len(ret.val.write_set) = Len(input.option)
    /\ \A i \in 1..Len(input.option) :
         /\ ret.val.write_set[i][1] = code_access_path(self_id(input.option[i]))
         /\ ret.val.write_set[i][2] = [op |-> "Value", bytes |-> Serialize(input.option[i]).val]
    /\ \A i, j \in 1..Len(input.option) : i < j => ret.val.write_set[i][1] # ret.val.write_set[j][1]
    /\ ret.val.events = <<>>

C7_Witness ==
  /\ fn = "encode_stdlib_upgrade_transaction"
  /\ pc = "returned"
  /\ Len(input.option) = 3
  /\ input.option[1].name = "LBR" /\ input.option[2].name = "LBR" /\ input.option[3].name = "LibraAccount"
  /\ Len(ret.val.write_set) = 3

(***************************************************************************)
(* C8                                                                      *)
(***************************************************************************)
\* C8: when a module fails to serialize, or two modules have one code
\* AccessPath, the call aborts and returns no ChangeSet; a ChangeSet that is
\* returned has an entry for every module and no AccessPath twice.
C8_NoPartialChangeSet ==
  fn = "encode_stdlib_upgrade_transaction" =>
    /\ (\E i \in 1..Len(input.option) : ~Serialize(input.option[i]).ok) => (pc = "aborted" /\ ret = NoValue)
    /\ (\E i, j \in 1..Len(input.option) : i < j /\ code_access_path(self_id(input.option[i])) = code_access_path(self_id(input.option[j]))) => (pc = "aborted" /\ ret = NoValue)
    /\ pc = "returned" =>
         /\ Len(ret.val.write_set) = Len(input.option)
         /\ \A i, j \in 1..Len(ret.val.write_set) : i < j => ret.val.write_set[i][1] # ret.val.write_set[j][1]

C8_Witness ==
  /\ fn = "encode_stdlib_upgrade_transaction"
  /\ pc = "aborted"
  /\ ret = NoValue
  /\ Len(input.option) = 3
  /\ input.option[1].serializes /\ input.option[2].serializes /\ ~input.option[3].serializes
  /\ self_id(input.option[1]) # self_id(input.option[2])

(***************************************************************************)
(* C9                                                                      *)
(***************************************************************************)
\* C9: encode_stdlib_script checks nothing: for every script and every
\* type_args and args it returns the script's registry bytecode with exactly
\* the vectors supplied, also when they do not fit the script's schema or
\* hold a byte vector that is no valid prefix.
C9_RawVectorsUnchanged ==
  fn = "encode_stdlib_script" =>
    /\ pc = "returned"
    /\ ret.val.code = StdlibRegistry[input.stdlib_script]
    /\ ret.val.ty_args = input.type_args
    /\ Len(ret.val.args) = Len(input.args)
    /\ \A i \in 1..Len(input.args) : ret.val.args[i].tag = input.args[i].tag /\ ret.val.args[i].val = input.args[i].val

C9_Witness ==
  /\ fn = "encode_stdlib_script"
  /\ pc = "returned"
  /\ input.stdlib_script = "CreateDesignatedDealer"
  /\ input.type_args = <<>>
  /\ Tags(input.args) = <<"Bool", "U8Vector">>
  /\ ~IsPrefixLength(Len(input.args[2].val))
  /\ Tags(ret.val.args) = <<"Bool", "U8Vector">>

(***************************************************************************)
(* C10                                                                     *)
(***************************************************************************)
\* C10: the name get_transaction_name gives for the bytecode of a Script an
\* encoder returned is "<op>_transaction" of the encoder's own operation,
\* never that of another operation and never "<unknown transaction>";
\* distinct operations have distinct bytecode.
C10_RoundTrip ==
  /\ \A s, t \in StdlibScript : s # t => registry[s] # registry[t]
  /\ (pc = "returned" /\ fn \in EncoderNames) =>
       LET name == get_transaction_name(ret.val.code)
       IN /\ name.ok
          /\ name.val = ScriptName(EncoderOperation) \o "_transaction"
          /\ \A s \in StdlibScript \ {EncoderOperation} : name.val # ScriptName(s) \o "_transaction"
          /\ name.val # "<unknown transaction>"

C10_Witness ==
  /\ pc = "returned"
  /\ fn = "encode_mint_script"
  /\ get_transaction_name(ret.val.code).val = "mint_transaction"

====
